---- MODULE Spec2Model ----
(***************************************************************************)
(* Greek numerology: the calculator page (src/index.html) and the filter   *)
(* form script of the word list (src/static/app.js).                       *)
(*                                                                         *)
(* Text is a sequence of characters (code points); a character is written  *)
(* by its name: "ALPHA" is U+0391, "alpha_small" is U+03B1, "LATIN_A" is   *)
(* U+0041.  Numbers in text fields are sequences of the digit characters   *)
(* "0".."9".                                                               *)
(***************************************************************************)
EXTENDS Integers, Sequences, FiniteSets, TLC

VARIABLES
    \* ---- src/index.html: the calculator page
    wordInput,      \* value of <input id="wordInput">
    results,        \* content of <div id="results">
    \* ---- src/index.html: one call of sumValues(word, table), statement by statement
    sv_word, sv_table, sv_i, sv_total, sv_pc,
    \* ---- src/index.html: calls of reduceNumber(n), statement by statement
    rn_arg, rn_n, rn_pc, rn_ret, rn_calls,
    \* ---- src/static/app.js: the filter form of the word list
    loaded,         \* the DOMContentLoaded handler has run
    value,          \* .value of every input of the form
    disabled,       \* .disabled of every input of the form
    timer,          \* the timeout of _debouncedCore is pending
    validation,     \* the inputs flagged in the #validation box
    localStorage,   \* the item greek_num_filters_v1: <<>> or <<object>>
    resetListeners, \* click listeners for #reset-btn registered so far
    sent,           \* the calls of loadResultsFromParams made by the handler
                    \* that ran last, in order
    \* ---- src/static/app.js: one debounced function, debounce(fn, delay)
    db_now,         \* the time, in units of which the delay is DelayTicks
    db_timeouts,    \* the timeouts the browser holds: records [id, due]
    db_nextId,      \* the id the next setTimeout returns
    db_t,           \* the variable t of the closure: 0 (undefined) or an id
    db_log,         \* what happened so far: calls of wrapped, of flush, of fn
    \* ---- src/static/app.js: the results requests, loadResultsFromParams
    rq_calls,       \* the calls so far, in order: records [params, stage]
    rq_html,        \* innerHTML of #results-root
    rq_address,     \* the search parameters of the address bar
    \* ---- src/static/app.js: the delete buttons of the results table
    dl_table,       \* the rows (tr) of the table on the page
    dl_dataId,      \* for each row, whether its delete button has a data-id
    dl_clicks       \* the runs of the click handler so far, in order: records
                    \* [row, confirmed, response, alerted]

calcVars   == <<wordInput, results>>
sumVars    == <<sv_word, sv_table, sv_i, sv_total, sv_pc>>
reduceVars == <<rn_arg, rn_n, rn_pc, rn_ret, rn_calls>>
filterVars == <<loaded, value, disabled, timer, validation, localStorage, resetListeners,
               sent>>
debounceVars == <<db_now, db_timeouts, db_nextId, db_t, db_log>>
resultsVars == <<rq_calls, rq_html, rq_address>>
deleteVars == <<dl_table, dl_dataId, dl_clicks>>
asyncVars  == <<debounceVars, resultsVars, deleteVars>>
vars       == <<calcVars, sumVars, reduceVars, filterVars, asyncVars>>

----------------------------------------------------------------------------
(* Bounds of the model *)

\* longest text over all the characters typed into the calculator's input box
MaxLen == 2
\* longest text over the characters of CoreChars typed into that box
MaxCoreLen == 4
\* longest word handed to a single sumValues call
MaxWordLen == 2
\* largest argument handed to reduceNumber
MaxN == 1200
\* how many times reduceNumber is applied again to its own result
MaxReapply == 1
\* filter rows n1..nNumRows of the form (the page has six; no handler lets one
\* row read or write another)
NumRows == 1
\* the count of registered reset listeners is kept up to this number
MaxResetListeners == 2
\* results requests are followed up to this number of calls
MaxRequests == 3
\* the results table shows MaxRowsShown rows; delete buttons are clicked up to
\* MaxClicks times
MaxRowsShown == 2
MaxClicks == 3
\* the debounced function: time passes in steps of Tick ms up to MaxTime,
\* wrapped is called at most MaxCalls times and flush at most MaxFlushes times
Tick == 100
MaxTime == 800
MaxCalls == 3
MaxFlushes == 1

----------------------------------------------------------------------------
(* Characters *)

GreekUpper ==
    { "ALPHA", "BETA", "GAMMA", "DELTA", "EPSILON", "ZETA", "ETA", "THETA",
      "IOTA", "KAPPA", "LAMDA", "MU", "NU", "XI", "OMICRON", "PI", "RHO",
      "SIGMA", "TAU", "UPSILON", "PHI", "CHI", "PSI", "OMEGA" }

\* characters outside the 24 letters: lowercase and accented Greek, a Latin
\* look-alike, a digit, punctuation, a combining accent, white space
OtherChars ==
    { "alpha_small", "sigma_final", "ALPHA_TONOS", "iota_dialytika_tonos_small",
      "COMBINING_DIAERESIS", "COMBINING_ACUTE",
      "LATIN_A", "latin_a_small", "DIGIT_1", "COMMA", "SPACE" }

Chars == GreekUpper \cup OtherChars

\* what a user can type: every character but the bare combining marks
TypedChars == Chars \ { "COMBINING_DIAERESIS", "COMBINING_ACUTE", "latin_a_small", "COMMA" }

\* a vowel, a consonant, a lowercase letter, an accented letter that
\* upper-cases to three code points, a Latin look-alike and white space
CoreChars ==
    { "ALPHA", "BETA", "alpha_small", "iota_dialytika_tonos_small", "LATIN_A", "SPACE" }

IsSpace(c) == c = "SPACE"

\* String.prototype.toUpperCase on one character (Unicode SpecialCasing:
\* U+0390 becomes the three code points U+0399 U+0308 U+0301)
UpperOf(c) ==
    CASE c = "alpha_small"   -> <<"ALPHA">>
      [] c = "sigma_final"   -> <<"SIGMA">>
      [] c = "latin_a_small" -> <<"LATIN_A">>
      [] c = "iota_dialytika_tonos_small" ->
             <<"IOTA", "COMBINING_DIAERESIS", "COMBINING_ACUTE">>
      [] OTHER -> <<c>>

RECURSIVE toUpperCase(_)
toUpperCase(s) ==
    IF s = <<>> THEN <<>> ELSE UpperOf(Head(s)) \o toUpperCase(Tail(s))

\* String.prototype.trim
RECURSIVE trimStart(_)
trimStart(s) ==
    IF s # <<>> /\ IsSpace(Head(s)) THEN trimStart(Tail(s)) ELSE s

RECURSIVE trimEnd(_)
trimEnd(s) ==
    IF s # <<>> /\ IsSpace(s[Len(s)]) THEN trimEnd(SubSeq(s, 1, Len(s) - 1)) ELSE s

trim(s) == trimEnd(trimStart(s))

\* String.prototype.split(/\s+/): the pieces between maximal runs of white
\* space; a run at either end leaves an empty piece there
RECURSIVE splitFrom(_, _, _, _)
splitFrom(s, i, cur, acc) ==
    IF i > Len(s) THEN Append(acc, cur)
    ELSE IF IsSpace(s[i])
         THEN IF i > 1 /\ IsSpace(s[i - 1])
              THEN splitFrom(s, i + 1, cur, acc)
              ELSE splitFrom(s, i + 1, <<>>, Append(acc, cur))
         ELSE splitFrom(s, i + 1, Append(cur, s[i]), acc)

splitWhitespace(s) == splitFrom(s, 1, <<>>, <<>>)

\* Array.prototype.filter(Boolean) on strings: the empty string is falsy
filterBoolean(ws) == SelectSeq(ws, LAMBDA w : w # <<>>)

----------------------------------------------------------------------------
(* The letter tables, src/index.html lines 42-47 *)

vowels ==
    [ c \in { "ALPHA", "EPSILON", "ETA", "IOTA", "OMICRON", "UPSILON", "OMEGA" } |->
        CASE c = "ALPHA" -> 1 [] c = "EPSILON" -> 5 [] c = "ETA" -> 7
          [] c = "IOTA" -> 9 [] c = "OMICRON" -> 6 [] c = "UPSILON" -> 2
          [] c = "OMEGA" -> 6 ]

\* the consonant table with a vowel listed in it as well
consonantsListingUpsilon ==
    [ c \in { "BETA", "GAMMA", "DELTA", "ZETA", "THETA", "KAPPA", "LAMDA", "MU",
              "NU", "XI", "PI", "RHO", "SIGMA", "TAU", "PHI", "CHI", "PSI",
              "UPSILON" } |->
        CASE c = "BETA" -> 2 [] c = "GAMMA" -> 3 [] c = "DELTA" -> 4
          [] c = "ZETA" -> 6 [] c = "THETA" -> 8 [] c = "KAPPA" -> 1
          [] c = "LAMDA" -> 2 [] c = "MU" -> 3 [] c = "NU" -> 4
          [] c = "XI" -> 5 [] c = "PI" -> 7 [] c = "RHO" -> 8
          [] c = "SIGMA" -> 9 [] c = "TAU" -> 1 [] c = "PHI" -> 3
          [] c = "CHI" -> 4 [] c = "PSI" -> 5 [] c = "UPSILON" -> 4 ]

consonants ==
    [ c \in { "BETA", "GAMMA", "DELTA", "ZETA", "THETA", "KAPPA", "LAMDA", "MU",
              "NU", "XI", "PI", "RHO", "SIGMA", "TAU", "PHI", "CHI", "PSI" } |->
        CASE c = "BETA" -> 2 [] c = "GAMMA" -> 3 [] c = "DELTA" -> 4
          [] c = "ZETA" -> 6 [] c = "THETA" -> 8 [] c = "KAPPA" -> 1
          [] c = "LAMDA" -> 2 [] c = "MU" -> 3 [] c = "NU" -> 4
          [] c = "XI" -> 5 [] c = "PI" -> 7 [] c = "RHO" -> 8
          [] c = "SIGMA" -> 9 [] c = "TAU" -> 1 [] c = "PHI" -> 3
          [] c = "CHI" -> 4 [] c = "PSI" -> 5 ]

\* object spread { ...a, ...b }: the keys of both, b's value where both have one
spread(a, b) ==
    [ k \in DOMAIN a \cup DOMAIN b |-> IF k \in DOMAIN b THEN b[k] ELSE a[k] ]

\* the union table built without the vowels
alphabetDictConsonantsOnly == consonants

alphabet_dict == spread(vowels, consonants)

TableNames == { "vowels", "consonants", "alphabet_dict" }

TableOf(name) ==
    CASE name = "vowels" -> vowels
      [] name = "consonants" -> consonants
      [] name = "alphabet_dict" -> alphabet_dict

----------------------------------------------------------------------------
(* reduceNumber, src/index.html lines 49-54 *)

DigitChars == <<"0", "1", "2", "3", "4", "5", "6", "7", "8", "9">>

\* Number.prototype.toString for a non-negative integer below 10^21, split('')
RECURSIVE toStringSplit(_)
toStringSplit(n) ==
    IF n < 10 THEN <<DigitChars[n + 1]>>
    ELSE Append(toStringSplit(n \div 10), DigitChars[(n % 10) + 1])

\* Number(digit) for a one-character digit string
Number(ch) == CHOOSE d \in 0..9 : DigitChars[d + 1] = ch

\* Array.prototype.reduce((sum, digit) => sum + Number(digit), 0)
RECURSIVE reduceSum(_, _, _)
reduceSum(arr, i, sum) ==
    IF i > Len(arr) THEN sum ELSE reduceSum(arr, i + 1, sum + Number(arr[i]))

\* the digit sum that leaves out the leading digit
digitSumSkipsFirst(n) == reduceSum(toStringSplit(n), 2, 0)

\* the loop body, line 51
digitSum(n) == reduceSum(toStringSplit(n), 1, 0)

\* the loop test with > written for >=
loopTestOffByOne(n) == n > 10

\* the loop test with the boundary one too low
loopTestFromNine(n) == n >= 9

\* while (n >= 10), line 50
loopTest(n) == n >= 10

RECURSIVE reduceNumber(_)
reduceNumber(n) == IF loopTest(n) THEN reduceNumber(digitSum(n)) ELSE n

----------------------------------------------------------------------------
(* sumValues, src/index.html lines 56-64 *)

\* if (table[letter]): a missing key reads as undefined, which is falsy, as is 0
truthyEntry(table, letter) == letter \in DOMAIN table /\ table[letter] # 0

\* a turn that counts the letter instead of adding its value
sumStepCountsLetters(total, letter, table) ==
    IF truthyEntry(table, letter) THEN total + 1 ELSE total

\* a turn that starts over at an unknown character
sumStepResetsOnUnknown(total, letter, table) ==
    IF truthyEntry(table, letter) THEN total + table[letter] ELSE 0

\* one turn of the for-of loop, lines 59-61
sumStep(total, letter, table) ==
    IF truthyEntry(table, letter) THEN total + table[letter] ELSE total

RECURSIVE sumLoop(_, _, _, _)
sumLoop(word, table, i, total) ==
    IF i > Len(word) THEN total
    ELSE sumLoop(word, table, i + 1, sumStep(total, word[i], table))

\* the loop started at the second character
sumValuesSkipsFirst(word, table) == sumLoop(word, table, 2, 0)

sumValues(word, table) == sumLoop(word, table, 1, 0)

----------------------------------------------------------------------------
(* calculate, src/index.html lines 66-111 *)

\* the <tr> appended for one word, lines 91-106
rowOf(word) ==
    LET vowelSum     == sumValues(word, vowels)
        consonantSum == sumValues(word, consonants)
        fullSum      == sumValues(word, alphabet_dict)
    IN  [ word |-> word,
          vowelSum |-> vowelSum,         vowelReduced |-> reduceNumber(vowelSum),
          consonantSum |-> consonantSum, consonantReduced |-> reduceNumber(consonantSum),
          fullSum |-> fullSum,           fullReduced |-> reduceNumber(fullSum) ]

wordsOf(text) == filterBoolean(splitWhitespace(trim(toUpperCase(text))))

\* calculate without the early return for an empty list of words
calculateResultNoEmptyCheck(text) ==
    LET words == wordsOf(text)
    IN  [ kind |-> "table", rows |-> [ k \in 1..Len(words) |-> rowOf(words[k]) ] ]

calculateResult(text) ==
    LET words == wordsOf(text)
    IN  IF Len(words) = 0
        THEN [ kind |-> "message", rows |-> <<>> ]
        ELSE [ kind |-> "table", rows |-> [ k \in 1..Len(words) |-> rowOf(words[k]) ] ]

----------------------------------------------------------------------------
(* The calculator page as a state machine *)

\* the texts of length n over the characters S
SeqsOfLen(S, n) == [ 1..n -> S ]

\* the page's own placeholder sentence and the literal words of the documentation
SampleInputs ==
    { <<"KAPPA", "ALPHA", "LAMDA", "ETA">>,
      <<"ALPHA", "BETA">>,
      <<"ALPHA", "BETA", "OMICRON", "LAMDA", "EPSILON", "SIGMA", "SPACE",
        "KAPPA", "ALPHA", "LAMDA", "ETA", "SPACE",
        "ETA", "MU", "EPSILON", "RHO", "ALPHA">>,
      <<"SIGMA", "SIGMA", "SIGMA", "IOTA", "IOTA", "IOTA", "IOTA", "IOTA", "IOTA",
        "IOTA", "IOTA", "IOTA", "IOTA", "IOTA", "IOTA">> }

CalcIdle ==
    /\ wordInput = <<>>
    /\ results = [ kind |-> "empty", rows |-> <<>> ]

SumIdle ==
    /\ sv_word = <<>> /\ sv_table = "vowels" /\ sv_i = 1 /\ sv_total = 0
    /\ sv_pc = "idle"

ReduceIdle ==
    /\ rn_arg = 0 /\ rn_n = 0 /\ rn_pc = "idle" /\ rn_ret = <<>> /\ rn_calls = 0

FilterIdle ==
    /\ loaded = FALSE /\ value = <<>> /\ disabled = <<>> /\ timer = FALSE
    /\ validation = {} /\ localStorage = <<>> /\ resetListeners = 0
    /\ sent = <<>>

DebounceIdle ==
    /\ db_now = 0 /\ db_timeouts = {} /\ db_nextId = 1 /\ db_t = 0 /\ db_log = <<>>

ResultsIdle ==
    /\ rq_calls = <<>> /\ rq_html = <<>> /\ rq_address = <<>>

DeleteIdle ==
    /\ dl_table = {} /\ dl_dataId = <<>> /\ dl_clicks = <<>>

AsyncIdle == DebounceIdle /\ ResultsIdle /\ DeleteIdle

\* the page is open with some text typed in the box, nothing calculated yet
InitCalc ==
    /\ \/ \E n \in 0..MaxLen : wordInput \in SeqsOfLen(TypedChars, n)
       \/ \E n \in 0..MaxCoreLen : wordInput \in SeqsOfLen(CoreChars, n)
       \/ wordInput \in SampleInputs
    /\ results = [ kind |-> "empty", rows |-> <<>> ]
    /\ SumIdle /\ ReduceIdle /\ FilterIdle /\ AsyncIdle

\* the Calculate button, onclick="calculate()"
calculate ==
    /\ results' = calculateResult(wordInput)
    /\ UNCHANGED <<wordInput, sumVars, reduceVars, filterVars, asyncVars>>

NextCalc == calculate

SpecCalc == InitCalc /\ [][NextCalc]_vars

----------------------------------------------------------------------------
(* One call of sumValues(word, table), statement by statement *)

InitSum ==
    /\ \E n \in 0..MaxWordLen : sv_word \in SeqsOfLen(Chars, n)
    /\ sv_table \in TableNames
    /\ sv_i = 1
    /\ sv_total = 0
    /\ sv_pc = "loop"
    /\ CalcIdle /\ ReduceIdle /\ FilterIdle /\ AsyncIdle

\* one turn of for (const letter of word), lines 58-62
sumIterate ==
    /\ sv_pc = "loop"
    /\ sv_i <= Len(sv_word)
    /\ sv_total' = sumStep(sv_total, sv_word[sv_i], TableOf(sv_table))
    /\ sv_i' = sv_i + 1
    /\ UNCHANGED <<sv_word, sv_table, sv_pc, calcVars, reduceVars, filterVars, asyncVars>>

\* return total, line 63
sumReturn ==
    /\ sv_pc = "loop"
    /\ sv_i > Len(sv_word)
    /\ sv_pc' = "done"
    /\ UNCHANGED <<sv_word, sv_table, sv_i, sv_total, calcVars, reduceVars, filterVars, asyncVars>>

NextSum == sumIterate \/ sumReturn

SpecSum == InitSum /\ [][NextSum]_vars

----------------------------------------------------------------------------
(* Calls of reduceNumber(n), statement by statement.  rn_ret is <<>> while  *)
(* the call runs and <<v>> once it has returned v.                          *)

InitReduce ==
    /\ rn_arg \in 0..MaxN
    /\ rn_n = rn_arg
    /\ rn_pc = "loop"
    /\ rn_ret = <<>>
    /\ rn_calls = 0
    /\ CalcIdle /\ SumIdle /\ FilterIdle /\ AsyncIdle

\* the loop body, lines 50-52
reduceLoop ==
    /\ rn_pc = "loop"
    /\ loopTest(rn_n)
    /\ rn_n' = digitSum(rn_n)
    /\ UNCHANGED <<rn_arg, rn_pc, rn_ret, rn_calls, calcVars, sumVars, filterVars, asyncVars>>

\* return n, line 53
reduceReturn ==
    /\ rn_pc = "loop"
    /\ ~loopTest(rn_n)
    /\ rn_pc' = "done"
    /\ rn_ret' = <<rn_n>>
    /\ UNCHANGED <<rn_arg, rn_n, rn_calls, calcVars, sumVars, filterVars, asyncVars>>

\* the caller hands the returned value to reduceNumber again
reduceAgain ==
    /\ rn_pc = "done"
    /\ rn_calls < MaxReapply
    /\ rn_arg' = rn_ret[1]
    /\ rn_n' = rn_ret[1]
    /\ rn_pc' = "loop"
    /\ rn_ret' = <<>>
    /\ rn_calls' = rn_calls + 1
    /\ UNCHANGED <<calcVars, sumVars, filterVars, asyncVars>>

NextReduce == reduceLoop \/ reduceReturn \/ reduceAgain

SpecReduce == InitReduce /\ [][NextReduce]_vars

\* a call that has started keeps executing: the engine runs the function to
\* its return
FairSpecReduce == SpecReduce /\ WF_vars(reduceLoop \/ reduceReturn)

----------------------------------------------------------------------------
(* The filter form, src/static/app.js.  An input of the form is named by a  *)
(* pair: <<i, "exact">> is n<i>, <<i, "min">> is n<i>_min, <<i, "max">> is   *)
(* n<i>_max, <<0, "per_page">> and <<0, "page">> are per_page and page.      *)
(* A form is a record [value, disabled] over these names.  The handlers    *)
(* here go as far as the calls of loadResultsFromParams (sent); what        *)
(* becomes of a request is followed in SpecResults.                         *)

MIN_VAL == 0
MAX_VAL == 999999

RowIds == 1..NumRows
Roles == { "exact", "min", "max" }
RowFields == RowIds \X Roles
PerPage == <<0, "per_page">>
Page == <<0, "page">>
Fields == RowFields \cup { PerPage, Page }

Exact(i) == <<i, "exact">>
MinOf(i) == <<i, "min">>
MaxOf(i) == <<i, "max">>

IsDigit(ch) == \E k \in 1..Len(DigitChars) : DigitChars[k] = ch

\* raw.replace(/[^\d]/g, "")
stripNonDigits(raw) == SelectSeq(raw, IsDigit)

RECURSIVE digitsPrefix(_)
digitsPrefix(s) ==
    IF s # <<>> /\ IsDigit(Head(s)) THEN <<Head(s)>> \o digitsPrefix(Tail(s)) ELSE <<>>

RECURSIVE digitsValue(_, _)
digitsValue(ds, acc) ==
    IF ds = <<>> THEN acc ELSE digitsValue(Tail(ds), 10 * acc + Number(Head(ds)))

NaN == [ t |-> "NaN" ]
Null == [ t |-> "null" ]
Num(n) == [ t |-> "num", n |-> n ]

\* parseInt(s, 10): leading white space, an optional sign, then the digits up
\* to the first other character; NaN when there is no digit
parseInt(s) ==
    LET body   == trimStart(s)
        signed == body # <<>> /\ Head(body) \in { "-", "+" }
        ds     == digitsPrefix(IF signed THEN Tail(body) ELSE body)
    IN  IF ds = <<>> THEN NaN
        ELSE IF signed /\ Head(body) = "-" THEN Num(0 - digitsValue(ds, 0))
        ELSE Num(digitsValue(ds, 0))

\* String(n) for an integer n
String(n) == IF n < 0 THEN <<"-">> \o toStringSplit(0 - n) ELSE toStringSplit(n)

\* Math.min, Math.max
Min(a, b) == IF a < b THEN a ELSE b
Max(a, b) == IF a > b THEN a ELSE b

\* !!String(v || "").trim()
hasText(v) == trim(v) # <<>>

\* const v = x; ...: written only({ rest : v \in { x } }), x is evaluated once
\* and the rest works on its value
only(S) == CHOOSE r \in S : TRUE

setValue(F, el, v) == [ F EXCEPT !.value[el] = v ]

\* sanitizeNumericInput(el), lines 137-147
sanitizeNumericInput(F0, el) ==
    only({
        LET raw    == F.value[el]
            digits == stripNonDigits(raw)
            F1     == IF digits # raw THEN setValue(F, el, digits) ELSE F
            n      == parseInt(digits)
        IN  IF digits = <<>> THEN F1
            ELSE IF n.t = "NaN" THEN setValue(F1, el, <<>>)
            ELSE LET n1 == IF n.n < MIN_VAL THEN MIN_VAL ELSE n.n
                     n2 == IF n1 > MAX_VAL THEN MAX_VAL ELSE n1
                 IN  setValue(F1, el, String(n2)) : F \in { F0 } })

\* updateDisablesForRow with the range inputs left enabled beside an exact value
updateDisablesForRowLeavesRangeEnabled(F0, i) ==
    only({
        LET hasExact == hasText(F.value[Exact(i)])
            hasRange == hasText(F.value[MinOf(i)]) \/ hasText(F.value[MaxOf(i)])
        IN  IF hasExact
            THEN [ value    |-> [ F.value EXCEPT ![MinOf(i)] = <<>>, ![MaxOf(i)] = <<>> ],
                   disabled |-> [ F.disabled EXCEPT ![Exact(i)] = FALSE ] ]
            ELSE IF hasRange
            THEN [ value    |-> [ F.value EXCEPT ![Exact(i)] = <<>> ],
                   disabled |-> [ F.disabled EXCEPT ![Exact(i)] = TRUE,
                                                    ![MinOf(i)] = FALSE,
                                                    ![MaxOf(i)] = FALSE ] ]
            ELSE [ value    |-> F.value,
                   disabled |-> [ F.disabled EXCEPT ![Exact(i)] = FALSE,
                                                    ![MinOf(i)] = FALSE,
                                                    ![MaxOf(i)] = FALSE ] ] : F \in { F0 } })

\* updateDisablesForRow(i), lines 158-182
updateDisablesForRow(F0, i) ==
    only({
        LET hasExact == hasText(F.value[Exact(i)])
            hasRange == hasText(F.value[MinOf(i)]) \/ hasText(F.value[MaxOf(i)])
        IN  IF hasExact
            THEN [ value    |-> [ F.value EXCEPT ![MinOf(i)] = <<>>, ![MaxOf(i)] = <<>> ],
                   disabled |-> [ F.disabled EXCEPT ![MinOf(i)] = TRUE,
                                                    ![MaxOf(i)] = TRUE,
                                                    ![Exact(i)] = FALSE ] ]
            ELSE IF hasRange
            THEN [ value    |-> [ F.value EXCEPT ![Exact(i)] = <<>> ],
                   disabled |-> [ F.disabled EXCEPT ![Exact(i)] = TRUE,
                                                    ![MinOf(i)] = FALSE,
                                                    ![MaxOf(i)] = FALSE ] ]
            ELSE [ value    |-> F.value,
                   disabled |-> [ F.disabled EXCEPT ![Exact(i)] = FALSE,
                                                    ![MinOf(i)] = FALSE,
                                                    ![MaxOf(i)] = FALSE ] ] : F \in { F0 } })

\* min.value === "" ? null : parseInt(min.value, 10)
numberOrNull(v) == IF v = <<>> THEN Null ELSE parseInt(v)

\* enforceStrictRangeForRow(i, edited), lines 185-214; edited is "min", "max"
\* or "null"
enforceStrictRangeForRow(F0, i, edited) ==
    only({
        LET minVal == numberOrNull(F1.value[MinOf(i)])
            maxVal == numberOrNull(F1.value[MaxOf(i)])
        IN  IF minVal.t = "num" /\ maxVal.t = "num" /\ maxVal.n <= minVal.n
            THEN IF edited = "max"
                 THEN setValue(F1, MaxOf(i), String(Min(MAX_VAL, minVal.n + 1)))
                 ELSE IF edited = "min"
                 THEN setValue(F1, MinOf(i), String(Max(MIN_VAL, maxVal.n - 1)))
                 ELSE setValue(F1, MaxOf(i), String(Min(MAX_VAL, minVal.n + 1)))
            ELSE F1 : F1 \in { updateDisablesForRow(F0, i) } })

\* one turn of the loop of validateFilters, lines 240-255
validateRow(F0, i) ==
    only({
        LET minVal == numberOrNull(F2.value[MinOf(i)])
            maxVal == numberOrNull(F2.value[MaxOf(i)])
        IN  IF /\ ~F2.disabled[MinOf(i)] /\ ~F2.disabled[MaxOf(i)]
               /\ minVal.t = "num" /\ maxVal.t = "num" /\ maxVal.n <= minVal.n
            THEN setValue(F2, MaxOf(i), String(Min(MAX_VAL, minVal.n + 1)))
            ELSE F2 :
         F2 \in { updateDisablesForRow(
             sanitizeNumericInput(
                 sanitizeNumericInput(
                     sanitizeNumericInput(F0, Exact(i)), MinOf(i)), MaxOf(i)), i) } })

RECURSIVE validateRows(_, _)
validateRows(F, i) ==
    IF i > NumRows THEN F ELSE validateRows(validateRow(F, i), i + 1)

\* the general range check, lines 258-270: per_page is an <input type="number">
outOfBounds(v) ==
    /\ v # <<>>
    /\ LET n == parseInt(v) IN n.t = "NaN" \/ n.n < MIN_VAL \/ n.n > MAX_VAL

\* validateFilters(), lines 233-274: the form it leaves, the inputs it flags
validateFilters(F0) ==
    only({
        only({ [ form |-> F1, issues |-> issues, ok |-> issues = {} ] :
             issues \in { { el \in RowFields \cup { PerPage } : outOfBounds(F1.value[el]) } } }) : F1 \in { validateRows(F0, 1) } })

\* readFiltersFromForm(form), lines 105-113: FormData leaves out disabled
\* inputs, the loop leaves out blank values
readFiltersFromForm(F0) ==
    only({
        [ el \in { e \in Fields : ~F.disabled[e] /\ hasText(F.value[e]) } |-> F.value[el] ] : F \in { F0 } })

\* writeFiltersToForm(form, data), lines 114-120
writeFiltersToForm(F0, data) ==
    only({
        [ F EXCEPT !.value = [ el \in Fields |->
                                 IF el \in DOMAIN data THEN data[el] ELSE F.value[el] ] ] : F \in { F0 } })

\* formToParams(form), lines 30-38: as readFiltersFromForm, FormData leaves
\* out disabled inputs and the loop leaves out blank values
formToParams(F0) ==
    only({
        [ el \in { e \in Fields : ~F.disabled[e] /\ hasText(F.value[e]) } |-> F.value[el] ] : F \in { F0 } })

\* A page is a record [form, issues, storage, timer, sent]: what the handlers
\* write; sent starts empty in every handler.
thePage ==
    [ form    |-> [ value |-> value, disabled |-> disabled ],
      issues  |-> validation,
      storage |-> localStorage,
      timer   |-> timer,
      sent    |-> <<>> ]

\* loadResultsFromParams(params) up to its fetch, lines 54-58
loadResultsFromParams(P0, by, params) ==
    only({ [ P EXCEPT !.sent = Append(P.sent, [ by |-> by, params |-> r ]) ] :
           <<P, r>> \in { <<P0, params>> } })

\* the function _debouncedCore debounces, lines 279-292, run by its timeout
\* or by its flush: the form as it is now, without page (sort and dir of the
\* address bar are not form inputs)
debouncedCore(P0, by) ==
    only({ loadResultsFromParams(P, by,
               [ el \in DOMAIN r \ { Page } |-> r[el] ]) :
           <<P, r>> \in { <<P0, formToParams(P0.form)>> } })

onForm(P, F) == [ P EXCEPT !.form = F ]

\* saveFilters(), lines 121-126
saveFilters(P0) ==
    only({ [ P EXCEPT !.storage = <<readFiltersFromForm(P.form)>> ] : P \in { P0 } })

\* validateFilters() with showValidationIssues, as a step of a handler
validated(P0) ==
    only({
        only({
            [ P EXCEPT !.form = v.form, !.issues = v.issues ] : v \in { validateFilters(P.form) } }) : P \in { P0 } })

\* debouncedFilter(), lines 294-300: _debouncedCore() replaces the pending
\* timeout by a new one
debouncedFilter(P0) ==
    only({
        only({
            IF v.ok
            THEN [ saveFilters([ P EXCEPT !.form = v.form, !.issues = v.issues ])
                     EXCEPT !.timer = TRUE ]
            ELSE [ P EXCEPT !.form = v.form, !.issues = v.issues ] : v \in { validateFilters(P.form) } }) : P \in { P0 } })

\* debouncedFilter.flush() with the pending timeout left to run
debouncedFilterFlushKeepsTimeout(P0) ==
    only({
        only({
            IF v.ok
            THEN debouncedCore(
                     saveFilters([ P EXCEPT !.form = v.form, !.issues = v.issues ]),
                     "flush")
            ELSE [ P EXCEPT !.form = v.form, !.issues = v.issues ] : v \in { validateFilters(P.form) } }) : P \in { P0 } })

\* debouncedFilter.flush(), lines 301-307: _debouncedCore.flush() clears the
\* timeout and sends the request at once
debouncedFilterFlush(P0) ==
    only({
        only({
            IF v.ok
            THEN debouncedCore(
                     [ saveFilters([ P EXCEPT !.form = v.form, !.issues = v.issues ])
                         EXCEPT !.timer = FALSE ],
                     "flush")
            ELSE [ P EXCEPT !.form = v.form, !.issues = v.issues ] : v \in { validateFilters(P.form) } }) : P \in { P0 } })

\* const page = form.querySelector('[name="page"]'); if (page) page.value = ""
clearPage(P0) == only({ onForm(P, setValue(P.form, Page, <<>>)) : P \in { P0 } })

\* updateDisablesForRow(i); enforceStrictRangeForRow(i, null) for a row input
rowRefresh(P0, el) ==
    IF el \in RowFields
    THEN only({
             onForm(P, enforceStrictRangeForRow(
                           updateDisablesForRow(P.form, el[1]), el[1], "null")) : P \in { P0 } })
    ELSE P0

becomes(P0) ==
    \E P \in { P0 } :
        /\ value' = P.form.value
        /\ disabled' = P.form.disabled
        /\ validation' = P.issues
        /\ localStorage' = P.storage
        /\ timer' = P.timer
        /\ sent' = P.sent

RECURSIVE updateDisablesFrom(_, _)
updateDisablesFrom(F, i) ==
    IF i > NumRows THEN F ELSE updateDisablesFrom(updateDisablesForRow(F, i), i + 1)

\* what the server wrote into the inputs, and what an earlier visit left in
\* localStorage
InitRowValues == { <<>>, <<"1">>, <<"SPACE">> }
InitPerPageValues == { <<>>, <<"5", "0">>, <<"-", "1">> }
InitPageValues == { <<>>, <<"2">> }
StoredAtLoad ==
    { <<>>,
      << [ el \in { Exact(1), MinOf(1) } |-> IF el = Exact(1) THEN <<"1">> ELSE <<"0">> ] >>,
      << [ el \in { MinOf(1), MaxOf(1), PerPage } |->
             IF el = MinOf(1) THEN <<"1">>
             ELSE IF el = MaxOf(1) THEN <<"0">> ELSE <<"-", "1">> ] >> }

\* what a user types or pastes into a numeric filter, and into per_page
TypedValues ==
    { <<>>, <<"0">>, <<"1">>, <<"a">>, <<"-", "1">>,
      <<"1", "0", "0", "0", "0", "0", "0">> }
TypedPerPage == { <<>>, <<"5", "0">>, <<"-", "1">> }

InitFilter ==
    /\ loaded = FALSE
    /\ \E rows \in [ RowFields -> InitRowValues ],
          pp \in InitPerPageValues, pg \in InitPageValues :
          value = [ el \in Fields |->
                      IF el \in RowFields THEN rows[el]
                      ELSE IF el = PerPage THEN pp ELSE pg ]
    /\ disabled = [ el \in Fields |-> FALSE ]
    /\ timer = FALSE
    /\ validation = {}
    /\ localStorage \in StoredAtLoad
    /\ resetListeners = 0
    /\ sent = <<>>
    /\ CalcIdle /\ SumIdle /\ ReduceIdle /\ AsyncIdle

\* the DOMContentLoaded handler, lines 316-336
DOMContentLoaded ==
    /\ ~loaded
    /\ \E hasAnyQs \in BOOLEAN :
          LET stored == IF localStorage = <<>> THEN <<>> ELSE localStorage[1]
              F0 == thePage.form
              F1 == IF ~hasAnyQs /\ localStorage # <<>> /\ DOMAIN stored # {}
                    THEN writeFiltersToForm(F0, stored) ELSE F0
          IN  becomes(validated(onForm(thePage, updateDisablesFrom(F1, 1))))
    /\ loaded' = TRUE
    /\ UNCHANGED <<resetListeners, calcVars, sumVars, reduceVars, asyncVars>>

\* the input handler on the numeric filter el, which now holds the text v,
\* lines 350-369
inputNumericOn(el, v) ==
    /\ loaded
    /\ ~disabled[el]
    /\ LET role == IF el[2] = "exact" THEN "null" ELSE el[2]
           F1 == sanitizeNumericInput(setValue(thePage.form, el, v), el)
           F2 == enforceStrictRangeForRow(F1, el[1], role)
       IN  becomes(debouncedFilter(clearPage(onForm(thePage, F2))))
    /\ UNCHANGED <<loaded, resetListeners, calcVars, sumVars, reduceVars, asyncVars>>

inputNumeric == \E el \in RowFields, v \in TypedValues : inputNumericOn(el, v)

\* the input handler on q or per_page, lines 371-376
inputOther ==
    /\ loaded
    /\ \E v \in TypedPerPage :
          becomes(debouncedFilter(clearPage(onForm(thePage, setValue(thePage.form, PerPage, v)))))
    /\ UNCHANGED <<loaded, resetListeners, calcVars, sumVars, reduceVars, asyncVars>>

\* the keydown handler on Enter, lines 384-387
keydownEnter ==
    /\ loaded
    /\ becomes(debouncedFilterFlush(thePage))
    /\ UNCHANGED <<loaded, resetListeners, calcVars, sumVars, reduceVars, asyncVars>>

\* the keydown handler on Escape in an input that holds text, lines 390-408
keydownEscape ==
    /\ loaded
    /\ \E el \in RowFields \cup { PerPage } :
          /\ ~disabled[el]
          /\ hasText(value[el])
          /\ LET P1 == saveFilters(onForm(thePage, setValue(thePage.form, el, <<>>)))
             IN  becomes(debouncedFilter(clearPage(rowRefresh(P1, el))))
    /\ UNCHANGED <<loaded, resetListeners, calcVars, sumVars, reduceVars, asyncVars>>

\* the click handler on the clear button of an input, lines 413-439; the
\* button is shown while its input holds text
clickClear ==
    /\ loaded
    /\ \E el \in RowFields \cup { PerPage } :
          /\ hasText(value[el])
          /\ LET P1 == onForm(thePage, setValue(thePage.form, el, <<>>))
             IN  becomes(debouncedFilter(validated(clearPage(rowRefresh(P1, el)))))
    /\ UNCHANGED <<loaded, resetListeners, calcVars, sumVars, reduceVars, asyncVars>>

\* step 2 of the reset listener, lines 458-464
RECURSIVE resetRows(_, _)
resetRows(F, i) ==
    IF i > NumRows THEN F
    ELSE resetRows(enforceStrictRangeForRow(updateDisablesForRow(F, i), i, "null"), i + 1)

\* one run of the reset listener, lines 442-485
resetOnce(P0) ==
    only({
        only({
                loadResultsFromParams(
                    clearPage([ P EXCEPT !.form = resetRows(F1, 1),
                                         !.storage = <<>>, !.issues = {} ]),
                    "reset", <<>>) :
             F1 \in { [ P.form EXCEPT !.value =
                 [ el \in Fields |-> IF el = Page THEN P.form.value[el] ELSE <<>> ] ] } }) : P \in { P0 } })

RECURSIVE resetTimes(_, _)
resetTimes(P, k) == IF k = 0 THEN P ELSE resetTimes(resetOnce(P), k - 1)

\* a click on #reset-btn: the click handler of line 413 registers one more
\* reset listener (line 442), which the click under way does not call; the
\* listeners registered by earlier clicks each run the reset
clickReset ==
    /\ loaded
    /\ becomes(resetTimes(thePage, resetListeners))
    /\ resetListeners' = Min(resetListeners + 1, MaxResetListeners)
    /\ UNCHANGED <<loaded, calcVars, sumVars, reduceVars, asyncVars>>

\* the search parameters of the sort and page links of the results
Sort == <<0, "sort">>
LinkHrefs == { Sort :> <<"n", "1">>, Page :> <<"2">> }

\* a click on a sort or a page link, lines 413-494: line 442 registers a
\* reset listener, lines 487-494 load the results of the link
clickLink ==
    /\ loaded
    /\ \E href \in LinkHrefs : becomes(loadResultsFromParams(thePage, "link", href))
    /\ resetListeners' = Min(resetListeners + 1, MaxResetListeners)
    /\ UNCHANGED <<loaded, calcVars, sumVars, reduceVars, asyncVars>>

\* a click anywhere else than on a clear button, #reset-btn or a link (a
\* delete or export button, the page): line 442 registers a reset listener
clickElsewhere ==
    /\ loaded
    /\ resetListeners < MaxResetListeners
    /\ resetListeners' = resetListeners + 1
    /\ sent' = <<>>
    /\ UNCHANGED <<loaded, value, disabled, validation, localStorage, timer,
                   calcVars, sumVars, reduceVars, asyncVars>>

\* the timeout of _debouncedCore expires, lines 279-292: the request is sent
timerFires ==
    /\ timer
    /\ becomes(debouncedCore([ thePage EXCEPT !.timer = FALSE ], "timeout"))
    /\ UNCHANGED <<loaded, resetListeners, calcVars, sumVars, reduceVars, asyncVars>>

\* the popstate handler, lines 515-518
popstate ==
    /\ loaded
    /\ becomes(saveFilters(thePage))
    /\ UNCHANGED <<loaded, resetListeners, calcVars, sumVars, reduceVars, asyncVars>>

NextFilter ==
    \/ DOMContentLoaded
    \/ inputNumeric
    \/ inputOther
    \/ keydownEnter
    \/ keydownEscape
    \/ clickClear
    \/ clickReset
    \/ clickLink
    \/ clickElsewhere
    \/ timerFires
    \/ popstate

SpecFilter == InitFilter /\ [][NextFilter]_vars

----------------------------------------------------------------------------
(* src/static/app.js: debounce(fn, delay), lines 70-81, as _debouncedCore   *)
(* uses it (delay = DEBOUNCE_MS).  The browser runs the callback of a       *)
(* timeout once its delay has passed, at that time or later.                *)

DEBOUNCE_MS == 300

\* clearTimeout(id): an id that is undefined or no longer pending is ignored
clearTimeout(timeouts, id) == { x \in timeouts : x.id # id }

\* setTimeout(callback, delay) returning the id newId
setTimeout(timeouts, newId, now, delay) ==
    timeouts \cup { [ id |-> newId, due |-> now + delay ] }

\* wrapped with the previous timeout left pending
wrappedKeepsTimeout(timeouts, t, newId, now) ==
    setTimeout(timeouts, newId, now, DEBOUNCE_MS)

\* the timeouts a call of wrapped leaves, lines 73-74
wrappedTimeouts(timeouts, t, newId, now) ==
    setTimeout(clearTimeout(timeouts, t), newId, now, DEBOUNCE_MS)

Event(op) == [ op |-> op, at |-> db_now ]

CountOf(log, op) == Cardinality({ k \in 1..Len(log) : log[k].op = op })

InitDebounce ==
    /\ db_now = 0
    /\ db_timeouts = {}
    /\ db_nextId = 1
    /\ db_t = 0
    /\ db_log = <<>>
    /\ CalcIdle /\ SumIdle /\ ReduceIdle /\ FilterIdle /\ ResultsIdle /\ DeleteIdle

\* a call of the debounced function, lines 72-75
wrapped ==
    /\ CountOf(db_log, "call") < MaxCalls
    /\ db_now + DEBOUNCE_MS <= MaxTime
    /\ db_timeouts' = wrappedTimeouts(db_timeouts, db_t, db_nextId, db_now)
    /\ db_t' = db_nextId
    /\ db_nextId' = db_nextId + 1
    /\ db_log' = Append(db_log, Event("call"))
    /\ UNCHANGED <<db_now, calcVars, sumVars, reduceVars, filterVars, resultsVars, deleteVars>>

\* a call of flush, lines 76-79: fn runs inside the call
flush ==
    /\ CountOf(db_log, "flush") < MaxFlushes
    /\ db_timeouts' = clearTimeout(db_timeouts, db_t)
    /\ db_log' = db_log \o << Event("flush"), Event("fn by flush") >>
    /\ UNCHANGED <<db_now, db_nextId, db_t, calcVars, sumVars, reduceVars, filterVars, resultsVars, deleteVars>>

\* the browser runs the callback of a timeout that is due, line 74
timeoutRuns ==
    /\ \E x \in db_timeouts :
          /\ x.due <= db_now
          /\ db_timeouts' = db_timeouts \ { x }
    /\ db_log' = Append(db_log, Event("fn by timeout"))
    /\ UNCHANGED <<db_now, db_nextId, db_t, calcVars, sumVars, reduceVars, filterVars, resultsVars, deleteVars>>

\* time passes
tick ==
    /\ db_now + Tick <= MaxTime
    /\ db_now' = db_now + Tick
    /\ UNCHANGED <<db_timeouts, db_nextId, db_t, db_log,
                   calcVars, sumVars, reduceVars, filterVars, resultsVars, deleteVars>>

NextDebounce ==
    \/ wrapped
    \/ flush
    \/ timeoutRuns
    \/ tick

SpecDebounce == InitDebounce /\ [][NextDebounce]_vars

\* time passes, and the browser does run a timeout that is due
FairSpecDebounce ==
    SpecDebounce /\ WF_vars(tick) /\ WF_vars(timeoutRuns)

----------------------------------------------------------------------------
(* src/static/app.js: loadResultsFromParams(params), lines 54-65, and its   *)
(* callers.  Search parameters are functions from names to values; the      *)
(* server answers a request with the results of its parameters.             *)

Q == <<0, "q">>
Dir == <<0, "dir">>
Ajax == <<0, "ajax">>
NoParams == [ el \in {} |-> <<>> ]

\* URLSearchParams: set, delete
paramsSet(params, k, v) ==
    [ el \in DOMAIN params \cup { k } |-> IF el = k THEN v ELSE params[el] ]
paramsDelete(params, k) == [ el \in DOMAIN params \ { k } |-> params[el] ]

\* what formToParams gives for the form at the time of the call
FormParamsNow ==
    { NoParams, Q :> <<"a">>, Q :> <<"a", "b">>, Q :> <<"a">> @@ Page :> <<"2">> }

\* the hrefs of the sort and page links of the results shown
LinkParams ==
    { Sort :> <<"n", "1">> @@ Dir :> <<"d", "e", "s", "c">>,
      Q :> <<"a">> @@ Page :> <<"2">> }

\* the address the page was opened at
AddressAtLoad == { NoParams, Sort :> <<"w", "o", "r", "d">> @@ Dir :> <<"a", "s", "c">> }

\* the page the server renders for a request
Render(url) == [ resultsFor |-> paramsDelete(url, Ajax) ]

\* lines 55-58: the url fetched
requestUrl(params) == paramsSet(params, Ajax, <<"1">>)

\* lines 285-289 of _debouncedCore: sort and dir of the address bar are kept
\* when the form does not give them, page is dropped
keepSortDir(params, cur) ==
    LET withSort == IF Sort \in DOMAIN cur /\ Sort \notin DOMAIN params
                    THEN paramsSet(params, Sort, cur[Sort]) ELSE params
        withDir  == IF Dir \in DOMAIN cur /\ Dir \notin DOMAIN withSort
                    THEN paramsSet(withSort, Dir, cur[Dir]) ELSE withSort
    IN  paramsDelete(withDir, Page)

\* loadResultsFromParams up to its first await, lines 54-58
fetchResults(params) ==
    Append(rq_calls, [ params |-> params, stage |-> "fetch" ])

InitResults ==
    /\ rq_calls = <<>>
    /\ rq_address \in AddressAtLoad
    /\ rq_html = Render(rq_address)
    /\ CalcIdle /\ SumIdle /\ ReduceIdle /\ FilterIdle /\ DebounceIdle /\ DeleteIdle

\* _debouncedCore runs (its timeout or its flush), lines 279-292
filterRequest ==
    /\ Len(rq_calls) < MaxRequests
    /\ \E form \in FormParamsNow :
          rq_calls' = fetchResults(keepSortDir(form, rq_address))
    /\ UNCHANGED <<rq_html, rq_address, calcVars, sumVars, reduceVars, filterVars,
                   debounceVars, deleteVars>>

\* a reset listener runs, lines 466-484: the address bar loses its query,
\* the results without filters are requested
resetRequest ==
    /\ Len(rq_calls) < MaxRequests
    /\ rq_address' = NoParams
    /\ rq_calls' = fetchResults(NoParams)
    /\ UNCHANGED <<rq_html, calcVars, sumVars, reduceVars, filterVars, debounceVars, deleteVars>>

\* a click on a sort or page link, lines 487-494
linkRequest ==
    /\ Len(rq_calls) < MaxRequests
    /\ \E href \in LinkParams : rq_calls' = fetchResults(href)
    /\ UNCHANGED <<rq_html, rq_address, calcVars, sumVars, reduceVars, filterVars,
                   debounceVars, deleteVars>>

\* await fetch(...) of call k ends, lines 58-59: with a response that is ok,
\* with one that is not, or with a network error
fetchEnds ==
    \E k \in 1..Len(rq_calls), outcome \in { "ok", "not ok", "error" } :
        /\ rq_calls[k].stage = "fetch"
        /\ rq_calls' = [ rq_calls EXCEPT ![k].stage =
                            IF outcome = "ok" THEN "text" ELSE "failed" ]
        /\ UNCHANGED <<rq_html, rq_address, calcVars, sumVars, reduceVars, filterVars,
                       debounceVars, deleteVars>>

\* the address bar after the response of call k is shown, lines 63-64
shownAddress(k) == paramsDelete(requestUrl(rq_calls[k].params), Ajax)

\* await res.text() of call k ends, lines 60-64
textEnds ==
    \E k \in 1..Len(rq_calls) :
        /\ rq_calls[k].stage = "text"
        /\ rq_html' = Render(requestUrl(rq_calls[k].params))
        /\ rq_address' = shownAddress(k)
        /\ rq_calls' = [ rq_calls EXCEPT ![k].stage = "done" ]
        /\ UNCHANGED <<calcVars, sumVars, reduceVars, filterVars, debounceVars, deleteVars>>

NextResults ==
    \/ filterRequest
    \/ resetRequest
    \/ linkRequest
    \/ fetchEnds
    \/ textEnds

SpecResults == InitResults /\ [][NextResults]_vars

----------------------------------------------------------------------------
(* src/static/app.js: the click handler of the delete buttons, lines        *)
(* 498-512                                                                  *)

TableRows == 1..MaxRowsShown

\* what await fetch(`/delete/${id}`) ends with: a response that is ok, one
\* that is not, or a network error
FetchOutcomes == { "ok", "not ok", "error" }

\* the row is removed whatever the response
resOkIgnored(response) == TRUE

\* res.ok, line 506
resOk(response) == response = "ok"

InitDelete ==
    /\ dl_table = TableRows
    /\ dl_dataId \in [ TableRows -> BOOLEAN ]
    /\ dl_clicks = <<>>
    /\ CalcIdle /\ SumIdle /\ ReduceIdle /\ FilterIdle /\ DebounceIdle /\ ResultsIdle

\* a click on the delete button of a row, up to await fetch, lines 498-505:
\* without data-id the handler returns; else the user answers confirm()
deleteClick ==
    /\ Len(dl_clicks) < MaxClicks
    /\ \E row \in dl_table, answer \in BOOLEAN :
          dl_clicks' = Append(dl_clicks,
              [ row       |-> row,
                confirmed |-> dl_dataId[row] /\ answer,
                response  |-> IF dl_dataId[row] /\ answer THEN "awaited" ELSE "none",
                alerted   |-> FALSE ])
    /\ UNCHANGED <<dl_table, dl_dataId, calcVars, sumVars, reduceVars, filterVars,
                   debounceVars, resultsVars>>

\* await fetch of a run of the handler ends, lines 505-511
deleteAnswered ==
    /\ \E k \in 1..Len(dl_clicks), outcome \in FetchOutcomes :
          /\ dl_clicks[k].response = "awaited"
          /\ dl_clicks' = [ dl_clicks EXCEPT
                              ![k].response = outcome,
                              ![k].alerted = outcome # "error" /\ ~resOk(outcome) ]
          /\ dl_table' = IF outcome # "error" /\ resOk(outcome)
                         THEN dl_table \ { dl_clicks[k].row }
                         ELSE dl_table
    /\ UNCHANGED <<dl_dataId, calcVars, sumVars, reduceVars, filterVars,
                   debounceVars, resultsVars>>

NextDelete ==
    \/ deleteClick
    \/ deleteAnswered

SpecDelete == InitDelete /\ [][NextDelete]_vars

----------------------------------------------------------------------------
(* Properties of the calculator page (SpecCalc) *)

Rows == { results.rows[k] : k \in 1..Len(results.rows) }

RECURSIVE SetSum(_, _)
SetSum(S, f) ==
    IF S = {} THEN 0
    ELSE LET x == CHOOSE y \in S : TRUE IN f[x] + SetSum(S \ { x }, f)

Occurrences(word, c) == Cardinality({ k \in 1..Len(word) : word[k] = c })

\* the sum of a word over a table, letter by letter of the table: each key's
\* value times the number of times the key occurs in the word
TableSum(word, table) ==
    SetSum(DOMAIN table, [ c \in DOMAIN table |-> table[c] * Occurrences(word, c) ])

\* C1: for every word the page analyses, the total-sum (over the union table)
\* equals the vowel-sum plus the consonant-sum.
C1_TotalIsVowelPlusConsonant ==
    \A r \in Rows : r.fullSum = r.vowelSum + r.consonantSum

\* a row of a word holding a vowel, a consonant and an unrecognized character
C1_Witness ==
    \E r \in Rows :
        /\ \E k \in 1..Len(r.word) : r.word[k] \in DOMAIN vowels
        /\ \E k \in 1..Len(r.word) : r.word[k] \in DOMAIN consonants
        /\ \E k \in 1..Len(r.word) : r.word[k] \notin DOMAIN alphabet_dict

KALH == <<"KAPPA", "ALPHA", "LAMDA", "ETA">>
AB   == <<"ALPHA", "BETA">>

\* C3: every analysed word gets six values: the three sums are the sums of the
\* vowel, consonant and union table values of its characters, each reduced
\* value is reduceNumber of its sum; KALH gives 8, 3, 11 and total-reduced 2,
\* AB gives 1, 2, 3 with every reduced value equal to its sum.
C3_SixValues ==
    /\ \A r \in Rows :
        /\ r.vowelSum = TableSum(r.word, vowels)
        /\ r.consonantSum = TableSum(r.word, consonants)
        /\ r.fullSum = TableSum(r.word, alphabet_dict)
        /\ r.vowelReduced = reduceNumber(r.vowelSum)
        /\ r.consonantReduced = reduceNumber(r.consonantSum)
        /\ r.fullReduced = reduceNumber(r.fullSum)
    /\ (wordInput = KALH /\ results.kind # "empty") =>
          results.rows =
            << [ word |-> KALH, vowelSum |-> 8, vowelReduced |-> 8,
                 consonantSum |-> 3, consonantReduced |-> 3,
                 fullSum |-> 11, fullReduced |-> 2 ] >>
    /\ (wordInput = AB /\ results.kind # "empty") =>
          results.rows =
            << [ word |-> AB, vowelSum |-> 1, vowelReduced |-> 1,
                 consonantSum |-> 2, consonantReduced |-> 2,
                 fullSum |-> 3, fullReduced |-> 3 ] >>

\* the word KALH has been analysed
C3_Witness ==
    /\ wordInput = KALH
    /\ results.kind = "table"
    /\ Len(results.rows) = 1
    /\ results.rows[1].fullSum = 11

OnlySpaces(s) == \A k \in 1..Len(s) : IsSpace(s[k])

NoTableChar(s) == \A k \in 1..Len(s) : s[k] \notin DOMAIN alphabet_dict

AllZero(r) ==
    /\ r.vowelSum = 0 /\ r.vowelReduced = 0
    /\ r.consonantSum = 0 /\ r.consonantReduced = 0
    /\ r.fullSum = 0 /\ r.fullReduced = 0

\* C8 as stated: an input that is empty or holds only unrecognized characters
\* yields the six values, all 0.
C8_EmptyOrUnrecognizedYieldsZeros ==
    (results.kind # "empty" /\ NoTableChar(wordInput)) =>
        /\ results.kind = "table"
        /\ Len(results.rows) >= 1
        /\ \A r \in Rows : AllZero(r)

\* C8 as the page behaves: an input that is empty or only white space yields
\* no values, only the request to enter words; every other input yields a row
\* per word, and a word in which no character is a table key (as the word
\* stands after upper-casing) has all six values 0.
C8_NoWordsPromptElseZeros ==
    /\ (results.kind # "empty" /\ OnlySpaces(wordInput)) =>
          (results.kind = "message" /\ results.rows = <<>>)
    /\ (results.kind # "empty" /\ ~OnlySpaces(wordInput)) =>
          (results.kind = "table" /\ Len(results.rows) >= 1)
    /\ \A r \in Rows : NoTableChar(r.word) => AllZero(r)

\* an all-zero row next to the row of a word that is not all zero
C8_Witness ==
    /\ \E r \in Rows : NoTableChar(r.word) /\ AllZero(r)
    /\ \E r \in Rows : ~AllZero(r)

----------------------------------------------------------------------------
(* Properties of one sumValues call (SpecSum) *)

InTable(c) == c \in DOMAIN TableOf(sv_table)

\* C5: the tables partition exactly the 24 Greek capitals: 7 vowels, 17
\* consonants, no letter in both, every value in 1..9, and the union table
\* gives each letter the value of the table that holds it.  Stated of the
\* table a sumValues call works on.
C5_TablesPartitionAlphabet ==
    LET table == TableOf(sv_table)
    IN  /\ DOMAIN table \subseteq GreekUpper
        /\ \A c \in DOMAIN table : table[c] \in 1..9
        /\ sv_table = "vowels" => Cardinality(DOMAIN table) = 7
        /\ sv_table = "consonants" =>
              /\ Cardinality(DOMAIN table) = 17
              /\ DOMAIN table \cap DOMAIN vowels = {}
        /\ sv_table = "alphabet_dict" =>
              /\ DOMAIN table = GreekUpper
              /\ Cardinality(DOMAIN table) = 24
              /\ DOMAIN table = DOMAIN vowels \cup DOMAIN consonants
              /\ \A c \in DOMAIN vowels : table[c] = vowels[c]
              /\ \A c \in DOMAIN consonants : table[c] = consonants[c]

\* a call over the union table has summed a vowel and a consonant
C5_Witness ==
    /\ sv_pc = "done"
    /\ sv_table = "alphabet_dict"
    /\ sv_word = <<"OMEGA", "PSI">>
    /\ sv_total = 11

\* C6: each occurrence of a vowel V adds V's table value to the vowel-sum and
\* to the total-sum and adds nothing to the consonant-sum.
C6_VowelCountsForVowelAndTotalOnly ==
    [][ (sv_i' = sv_i + 1 /\ sv_word[sv_i] \in DOMAIN vowels) =>
            sv_total' = sv_total +
                (IF sv_table = "consonants" THEN 0 ELSE vowels[sv_word[sv_i]]) ]_vars

\* the loop has passed the vowel IOTA in a sum over the consonant table with a
\* consonant already counted
C6_Witness ==
    /\ sv_table = "consonants"
    /\ sv_i = 3
    /\ sv_word[2] = "IOTA"
    /\ sv_total > 0

\* C7: characters that are no key of the table contribute 0 and raise no
\* error: the call returns, and returns what it returns for the word with
\* those characters removed.
C7_UnrecognizedContributeZero ==
    /\ sv_pc \in { "idle", "loop", "done" }
    /\ sv_pc = "loop" => (ENABLED sumIterate \/ ENABLED sumReturn)
    /\ sv_pc = "done" =>
          sv_total = sumValues(SelectSeq(sv_word, InTable), TableOf(sv_table))

\* a call over a lowercase letter followed by its capital has returned the
\* capital's value
C7_Witness ==
    /\ sv_pc = "done"
    /\ sv_word = <<"alpha_small", "ALPHA">>
    /\ sv_table = "alphabet_dict"
    /\ sv_total = 1

----------------------------------------------------------------------------
(* Properties of reduceNumber (SpecReduce, FairSpecReduce) *)

DigitalRoot(n) == IF n = 0 THEN 0 ELSE 1 + ((n - 1) % 9)

\* C2: reduceNumber(0) = 0 and reduceNumber(n) = 1 + ((n - 1) mod 9) for n > 0.
C2_AgreesWithDigitalRoot ==
    rn_pc = "done" => rn_ret = <<DigitalRoot(rn_arg)>>

\* a call that went round the loop three times has returned
C2_Witness ==
    /\ rn_pc = "done"
    /\ rn_arg = 199
    /\ rn_ret = <<1>>

\* C4: every call of reduceNumber returns, and returns an integer in 0..9.
C4_TerminatesWithSingleDigit ==
    /\ [](rn_pc = "done" => (Len(rn_ret) = 1 /\ rn_ret[1] \in 0..9))
    /\ ((rn_pc = "loop") ~> (rn_pc = "done"))

\* a call on a three-digit number has returned after two turns of the loop
C4_Witness ==
    /\ rn_pc = "done"
    /\ rn_arg = 999
    /\ rn_ret = <<9>>

\* C9: reduceNumber(d) = d for every d in 0..9, without a turn of the loop,
\* and reduceNumber applied to a result of reduceNumber returns it unchanged.
C9_IdempotentOnSingleDigits ==
    /\ (rn_pc = "loop" /\ rn_arg \in 0..9) => ~ENABLED reduceLoop
    /\ (rn_pc = "done" /\ rn_arg \in 0..9) => rn_ret = <<rn_arg>>
    /\ (rn_pc = "done" /\ rn_calls >= 1) => rn_ret = <<rn_arg>>

\* the result 9 of a first call has been reduced again
C9_Witness ==
    /\ rn_pc = "done"
    /\ rn_calls = 1
    /\ rn_arg = 9
    /\ rn_ret = <<9>>

----------------------------------------------------------------------------
(* Properties of the filter form (SpecFilter) *)

\* C10: once the page has loaded, in every row an exact value and a range
\* exclude each other: with an exact value, min and max are empty and
\* disabled; with a min or a max, exact is empty and disabled; with all three
\* empty, all three are enabled.
C10_ExactAndRangeExclusive ==
    loaded =>
        \A i \in RowIds :
            LET exact == value[Exact(i)]
                min   == value[MinOf(i)]
                max   == value[MaxOf(i)]
            IN  /\ ~(exact # <<>> /\ (min # <<>> \/ max # <<>>))
                /\ exact # <<>> =>
                      /\ min = <<>> /\ max = <<>>
                      /\ disabled[MinOf(i)] /\ disabled[MaxOf(i)]
                /\ (min # <<>> \/ max # <<>>) =>
                      /\ exact = <<>>
                      /\ disabled[Exact(i)]
                /\ (exact = <<>> /\ min = <<>> /\ max = <<>>) =>
                      /\ ~disabled[Exact(i)]
                      /\ ~disabled[MinOf(i)] /\ ~disabled[MaxOf(i)]

\* after a reset and new input a row holds a range, its exact input is
\* disabled and the request for it is pending
C10_Witness ==
    /\ loaded
    /\ resetListeners > 1
    /\ value[MinOf(1)] # <<>> /\ value[MaxOf(1)] # <<>> /\ disabled[Exact(1)]
    /\ ~disabled[MinOf(1)] /\ ~disabled[MaxOf(1)]
    /\ timer

\* both ends of the range of row i are filled in and max is not above min
RangeNotStrict(i) ==
    /\ value[MinOf(i)] # <<>>
    /\ value[MaxOf(i)] # <<>>
    /\ parseInt(value[MaxOf(i)]).n <= parseInt(value[MinOf(i)]).n

\* C11: once the input handler has handled an input event on the min or the
\* max field of a row, the row has max > min when both are filled in,
\* whichever of the two was edited
C11_StrictRangeAfterInput ==
    [][ \A el \in RowFields, v \in TypedValues :
            (el[2] \in { "min", "max" } /\ inputNumericOn(el, v))
                => ~RangeNotStrict(el[1])' ]_vars

\* C12: a results request of the live filter (the timeout of _debouncedCore
\* or its flush) is sent only while no numeric input of the form holds a
\* value validateFilters flags as outside MIN_VAL..MAX_VAL
C12_RequestsCarryValidValues ==
    \A k \in 1..Len(sent) :
        sent[k].by \in { "timeout", "flush" } =>
            \A el \in RowFields \cup { PerPage } : ~outOfBounds(value[el])

\* C14: Enter in the form with valid filters sends one results request at
\* once and leaves no timeout pending, so that the inputs typed before it
\* cause no second request
C14_EnterSendsOneRequest ==
    [][ (keydownEnter /\ validation' = {})
            => /\ Len(sent') = 1
               /\ sent'[1].by = "flush"
               /\ ~timer' ]_vars

\* Enter was pressed after typing into a row: the one request carries the
\* value typed, no timeout is pending
C14_Witness ==
    /\ Len(sent) = 1
    /\ sent[1].by = "flush"
    /\ MinOf(1) \in DOMAIN sent[1].params
    /\ ~timer

----------------------------------------------------------------------------
(* Properties of the debounced function (SpecDebounce) *)

\* the place in the log of the last call of wrapped before place k, 0 if none
LastCallBefore(k) ==
    LET calls == { j \in 1..(k - 1) : db_log[j].op = "call" }
    IN  IF calls = {} THEN 0 ELSE CHOOSE j \in calls : \A i \in calls : i <= j

IsFn(e) == e.op \in { "fn by timeout", "fn by flush" }

\* every run of fn from a timeout answers a call made at least the delay
\* before, and it is the only run of fn since that call
OneRunAfterTheDelay ==
    \A k \in 1..Len(db_log) :
        db_log[k].op = "fn by timeout" =>
            LET c == LastCallBefore(k)
            IN  /\ c > 0
                /\ db_log[k].at >= db_log[c].at + DEBOUNCE_MS
                /\ \A j \in (c + 1)..(k - 1) : ~IsFn(db_log[j])

\* fn does not run between two calls less than the delay apart
NoRunInsideBurst ==
    \A i, j \in 1..Len(db_log) :
        ( /\ i < j
          /\ db_log[i].op = "call" /\ db_log[j].op = "call"
          /\ db_log[j].at - db_log[i].at < DEBOUNCE_MS )
            => \A k \in (i + 1)..(j - 1) : db_log[k].op # "fn by timeout"

\* C13: at most one timeout is pending; a call of the debounced function
\* leaves its own timeout as the only one; fn runs from a timeout only once
\* the delay has passed since the last call, once, and not between calls
\* less than the delay apart; a pending timeout does not stay pending for ever
C13_DebounceRunsOncePerBurst ==
    /\ [](Cardinality(db_timeouts) <= 1)
    /\ [][ Len(db_log') = Len(db_log) + 1 /\ db_log'[Len(db_log')].op = "call"
             => db_timeouts' = { [ id |-> db_t', due |-> db_now + DEBOUNCE_MS ] } ]_vars
    /\ [](OneRunAfterTheDelay /\ NoRunInsideBurst)
    /\ (db_timeouts # {}) ~> (db_timeouts = {})

\* three calls 100 ms apart, then the one run of fn, 300 ms after the last
C13_Witness ==
    /\ db_log = << [ op |-> "call", at |-> 0 ], [ op |-> "call", at |-> 100 ],
                   [ op |-> "call", at |-> 200 ], [ op |-> "fn by timeout", at |-> 500 ] >>
    /\ db_timeouts = {}

----------------------------------------------------------------------------
(* Properties of the results requests (SpecResults) *)

\* C15: once every results request made has been answered and shown, the
\* results shown and the address bar are those of the request made last,
\* whatever the order of the responses
C15_LastIssuedRequestWins ==
    ( /\ rq_calls # <<>>
      /\ \A k \in 1..Len(rq_calls) : rq_calls[k].stage = "done" )
        => LET last == rq_calls[Len(rq_calls)].params
           IN  /\ rq_html = Render(last)
               /\ rq_address = last

----------------------------------------------------------------------------
(* Properties of the delete buttons (SpecDelete) *)

\* some run of the handler for the row was confirmed and answered ok
ConfirmedAndOk(row) ==
    \E k \in 1..Len(dl_clicks) :
        /\ dl_clicks[k].row = row
        /\ dl_clicks[k].confirmed
        /\ dl_clicks[k].response = "ok"

\* the step cancels a confirm(), or ends a delete request without an ok
CancelOrFailure ==
    \/ /\ Len(dl_clicks') = Len(dl_clicks) + 1
       /\ ~dl_clicks'[Len(dl_clicks')].confirmed
    \/ \E k \in 1..Len(dl_clicks) :
          /\ dl_clicks[k].response = "awaited"
          /\ dl_clicks'[k].response \in { "not ok", "error" }

\* C16: a row is gone from the table only if the user confirmed its deletion
\* and the server answered that delete request ok; a cancelled confirm and a
\* failed response leave the table as it is
C16_RowRemovedOnlyAfterConfirmAndOk ==
    /\ [](\A row \in TableRows : row \notin dl_table => ConfirmedAndOk(row))
    /\ [][CancelOrFailure => dl_table' = dl_table]_vars

\* row 1: cancelled, then confirmed and refused (alert), the row is still
\* there; row 2: confirmed and answered ok, the row is gone
C16_Witness ==
    /\ dl_table = { 1 }
    /\ \E i, j, k \in 1..Len(dl_clicks) :
          /\ dl_clicks[i].row = 1 /\ ~dl_clicks[i].confirmed
          /\ dl_clicks[j].row = 1 /\ dl_clicks[j].response = "not ok" /\ dl_clicks[j].alerted
          /\ dl_clicks[k].row = 2 /\ dl_clicks[k].response = "ok"

====
